---- MODULE Spec2Model ----
(***************************************************************************)
(* The control-channel handshake of the tunnelto server                    *)
(* (tunnelto_server/src/client_auth.rs): one inbound hello is read, its    *)
(* wire format detected, the requested sub-domain sanitized, checked       *)
(* against the live registry and the reserved names, the credential        *)
(* adjudicated, and either a ClientHandshake is returned or one ServerHello *)
(* rejection is sent.                                                       *)
(***************************************************************************)
EXTENDS Naturals, Sequences, FiniteSets, TLC

\* ------------------------------------------------------------------ bounds

\* Longest requested sub-domain, in characters.
MaxLen == 2

\* Most hosts the live registry holds at once.
MaxClients == 1

\* ------------------------------------------------------------ value spaces

\* Option<T>: None is the empty sequence, Some(x) the one-element sequence.
None == << >>

Some(x) == << x >>

ClientIds == {"A", "B"}

\* Credentials a client may present; "k1" is configured, "k2" is not.
Keys == {"k1", "k2"}

\* Characters a client may put in a requested name: a lower-case letter, an
\* upper-case letter, a hyphen, and U+0130 (LATIN CAPITAL LETTER I WITH DOT
\* ABOVE), an alphabetic character whose lower-case form is the two
\* characters "i" and U+0307 (COMBINING DOT ABOVE).
InputChars == {"a", "A", "-", "U+0130"}

\* Labels standing for the freshly generated random part of a name.
RandomLabels == {"~1", "~2"}

\* Every requested name of at most n characters (a String is a sequence of chars).
Names(n) == UNION {[1..k -> InputChars] : k \in 0..n}

Range(s) == {s[i] : i \in DOMAIN s}

\* ----------------------------------------------------------- std: strings

\* char::to_lowercase: the lower-case form of one character, itself a string.
to_lowercase_char(c) ==
    CASE c = "A" -> <<"a">>
      [] c = "U+0130" -> <<"i", "U+0307">>
      [] OTHER -> <<c>>

to_lowercase_identity(s) == s

\* str::to_lowercase: the concatenation of the characters' lower-case forms.
RECURSIVE to_lowercase(_)
to_lowercase(s) ==
    IF s = << >> THEN << >>
    ELSE to_lowercase_char(Head(s)) \o to_lowercase(Tail(s))

\* char::is_alphanumeric: letters and digits; the hyphen and the combining
\* mark U+0307 are neither.
is_alphanumeric(c) == c \in {"a", "A", "i", "U+0130"}

\* --------------------------------------------------- external collaborators

\* crate::BLOCKED_SUB_DOMAINS: the reserved names.
BLOCKED_SUB_DOMAINS == {<<"a", "a">>}

\* ServerHello::random_domain(): a fresh random name.
random_domain(rnd) == <<rnd>>

\* ServerHello::prefixed_random_domain(prefix): a random name behind the prefix.
prefixed_random_domain(prefix, rnd) == prefix \o random_domain(rnd)

\* Connections::client_for_host(host): the client holding the host, if any.
client_for_host(conns, host) ==
    LET held == {e \in conns : e.host = host}
    IN  IF held = {} THEN None ELSE Some((CHOOSE e \in held : TRUE).id)

\* The wire body of a hello: a JSON object by its fields.  id and sub_domain
\* may be absent; client_type is absent, "anonymous", {"auth": {key}}, or a
\* value that is neither.
ClientTypeFields ==
    {None, <<"anonymous">>, <<"unknown">>} \cup {<<"auth", k>> : k \in Keys}

HelloBodies ==
    [id : {None} \cup {Some(i) : i \in ClientIds},
     sub_domain : {None} \cup {Some(n) : n \in Names(MaxLen)},
     client_type : ClientTypeFields]

\* serde_json::from_slice::<ClientHelloV1>: the legacy shape {id, sub_domain?}.
ParseV1(data) ==
    IF data.id # None /\ data.client_type = None
    THEN Some([id |-> data.id[1], sub_domain |-> data.sub_domain])
    ELSE None

\* serde_json::from_slice::<ClientHello>: the current shape
\* {id, sub_domain?, client_type}.
ParseHello(data) ==
    IF data.id # None /\ data.client_type \in ClientTypeFields \ {None, <<"unknown">>}
    THEN Some([id |-> data.id[1], sub_domain |-> data.sub_domain,
               client_type |-> data.client_type])
    ELSE None

\* ------------------------------------------------------------- client_auth

ClientHandshake(id, sub_domain, is_anonymous) ==
    [id |-> id, sub_domain |-> sub_domain, is_anonymous |-> is_anonymous]

\* What one handshake does: the Option<ClientHandshake> it returns, the
\* ServerHello replies it hands to websocket.send, and the calls it makes.
Outcome(result, sent, trace) ==
    [result |-> result, sent |-> sent, trace |-> trace]

\* std::env::var("ALLOWED_AUTH_KEYS") split on ",".
allowed_auth_key == {"k1"}

env_auth_deny_all(auth_key, subdomain) == "ReservedByOther"

env_auth_allow_all(auth_key, subdomain) == "ReservedByYou"

env_auth_available_if_unlisted(auth_key, subdomain) ==
    IF auth_key \in allowed_auth_key THEN "ReservedByYou" ELSE "Available"

\* Ok(AuthResult): the function has no Err path.
env_auth_sub_domain(auth_key, subdomain) ==
    IF auth_key \in allowed_auth_key THEN "ReservedByYou" ELSE "ReservedByOther"

has_invalid_chars_first_only(sub_domain) ==
    sub_domain # << >> /\ ~is_alphanumeric(sub_domain[1])

has_invalid_chars_or_empty(sub_domain) ==
    \/ sub_domain = << >>
    \/ Cardinality({i \in DOMAIN sub_domain : ~is_alphanumeric(sub_domain[i])}) > 0

\* sub_domain.chars().filter(|c| !c.is_alphanumeric()).count() > 0
has_invalid_chars(sub_domain) ==
    Cardinality({i \in DOMAIN sub_domain : ~is_alphanumeric(sub_domain[i])}) > 0

in_use_by_anyone(existing_client, client_id) == existing_client # None

in_use_never(existing_client, client_id) == FALSE

\* existing_client.is_some() && Some(client_id) != existing_client.as_ref()
in_use(existing_client, client_id) ==
    existing_client # None /\ Some(client_id) # existing_client

is_blocked_never(sub_domain) == FALSE

\* BLOCKED_SUB_DOMAINS.contains(&sub_domain)
is_blocked(sub_domain) == sub_domain \in BLOCKED_SUB_DOMAINS

\* Returns [value: Option<String>, sent, trace].
sanitize_sub_domain_and_pre_validate(conns, requested_sub_domain, client_id) ==
    LET sub_domain == to_lowercase(requested_sub_domain)
        existing_client == client_for_host(conns, sub_domain)
        t1 == <<"sanitize_sub_domain_and_pre_validate", "to_lowercase", "is_alphanumeric">>
        t2 == t1 \o <<"client_for_host">>
        t3 == t2 \o <<"BLOCKED_SUB_DOMAINS">>
    IN  IF has_invalid_chars(sub_domain)
        THEN [value |-> None, sent |-> <<"InvalidSubDomain">>, trace |-> t1 \o <<"send">>]
        ELSE IF in_use(existing_client, client_id)
        THEN [value |-> None, sent |-> <<"SubDomainInUse">>, trace |-> t2 \o <<"send">>]
        ELSE IF is_blocked(sub_domain)
        THEN [value |-> None, sent |-> <<"SubDomainInUse">>, trace |-> t3 \o <<"send">>]
        ELSE [value |-> Some(sub_domain), sent |-> << >>, trace |-> t3]

v1_sub_domain_exact(sub_domain, rnd) == sub_domain

\* ServerHello::prefixed_random_domain(&sub_domain) for a legacy client.
v1_sub_domain(sub_domain, rnd) == prefixed_random_domain(sub_domain, rnd)

auth_client_v1(conns, client_hello, rnd) ==
    IF client_hello.sub_domain = None
    THEN Outcome(Some(ClientHandshake(client_hello.id, random_domain(rnd), TRUE)),
                 << >>, <<"auth_client_v1", "random_domain">>)
    ELSE LET s == sanitize_sub_domain_and_pre_validate(
                      conns, client_hello.sub_domain[1], client_hello.id)
         IN  IF s.value = None
             THEN Outcome(None, s.sent, <<"auth_client_v1">> \o s.trace)
             ELSE Outcome(Some(ClientHandshake(client_hello.id,
                                               v1_sub_domain(s.value[1], rnd), TRUE)),
                          << >>,
                          <<"auth_client_v1">> \o s.trace \o <<"prefixed_random_domain">>)

auth_client_anonymous_sanitized(conns, client_hello, rnd) ==
    auth_client_v1(conns, client_hello, rnd)

\* The ClientType::Anonymous arm of auth_client.
auth_client_anonymous(conns, client_hello, rnd) ==
    IF client_hello.sub_domain # None
    THEN Outcome(Some(ClientHandshake(client_hello.id,
                      prefixed_random_domain(client_hello.sub_domain[1], rnd), TRUE)),
                 << >>, <<"prefixed_random_domain">>)
    ELSE Outcome(Some(ClientHandshake(client_hello.id, random_domain(rnd), TRUE)),
                 << >>, <<"random_domain">>)

auth_client_unnamed_checked(client_hello, key, rnd) ==
    IF env_auth_sub_domain(key, << >>) = "ReservedByYou"
    THEN Outcome(Some(ClientHandshake(client_hello.id, random_domain(rnd), FALSE)),
                 << >>, <<"env_auth_sub_domain", "random_domain">>)
    ELSE Outcome(None, <<"SubDomainInUse">>, <<"env_auth_sub_domain", "send">>)

\* The ClientType::Auth arm of auth_client with no requested name.
auth_client_unnamed(client_hello, key, rnd) ==
    Outcome(Some(ClientHandshake(client_hello.id, random_domain(rnd), FALSE)),
            << >>, <<"random_domain">>)

\* Result<AuthResult, auth_db::Error>: the three decisions, or a failed call.
AuthDecisions == {"Available", "ReservedByYou", "ReservedByOther", "Err"}

auth_client_decide_err_in_use(client_hello, requested_sub_domain, decision, t) ==
    IF decision \in {"Available", "ReservedByYou"}
    THEN Outcome(Some(ClientHandshake(client_hello.id, requested_sub_domain, FALSE)),
                 << >>, t)
    ELSE Outcome(None, <<"SubDomainInUse">>, t \o <<"send">>)

\* The match on the adjudicator's answer in auth_client.
auth_client_decide(client_hello, requested_sub_domain, decision, t) ==
    IF decision \in {"Available", "ReservedByYou"}
    THEN Outcome(Some(ClientHandshake(client_hello.id, requested_sub_domain, FALSE)),
                 << >>, t)
    ELSE IF decision = "ReservedByOther"
    THEN Outcome(None, <<"SubDomainInUse">>, t \o <<"send">>)
    ELSE Outcome(None, <<"AuthFailed">>, t \o <<"send">>)

auth_client_named_double_reply(conns, client_hello, key, rnd) ==
    LET s == sanitize_sub_domain_and_pre_validate(
                 conns, client_hello.sub_domain[1], client_hello.id)
    IN  IF s.value = None
        THEN Outcome(None, s.sent \o <<"AuthFailed">>, s.trace \o <<"send">>)
        ELSE IF env_auth_sub_domain(key, s.value[1]) = "ReservedByYou"
        THEN Outcome(Some(ClientHandshake(client_hello.id, s.value[1], FALSE)),
                     << >>, s.trace \o <<"env_auth_sub_domain">>)
        ELSE Outcome(None, <<"SubDomainInUse">>,
                     s.trace \o <<"env_auth_sub_domain", "send">>)

\* The ClientType::Auth arm of auth_client with a requested name, and the
\* adjudication that follows it.
auth_client_named_adjudicate_first(conns, client_hello, key, rnd) ==
    LET decision == env_auth_sub_domain(key, client_hello.sub_domain[1])
        s == sanitize_sub_domain_and_pre_validate(
                 conns, client_hello.sub_domain[1], client_hello.id)
    IN  IF decision = "ReservedByOther"
        THEN Outcome(None, <<"SubDomainInUse">>, <<"env_auth_sub_domain", "send">>)
        ELSE IF s.value = None
        THEN Outcome(None, s.sent, <<"env_auth_sub_domain">> \o s.trace)
        ELSE Outcome(Some(ClientHandshake(client_hello.id, s.value[1], FALSE)),
                     << >>, <<"env_auth_sub_domain">> \o s.trace)

auth_client_named(conns, client_hello, key, rnd) ==
    LET s == sanitize_sub_domain_and_pre_validate(
                 conns, client_hello.sub_domain[1], client_hello.id)
    IN  IF s.value = None
        THEN Outcome(None, s.sent, s.trace)
        ELSE LET requested_sub_domain == s.value[1]
                 decision == env_auth_sub_domain(key, requested_sub_domain)
             IN  auth_client_decide(client_hello, requested_sub_domain, decision,
                                    s.trace \o <<"env_auth_sub_domain">>)

\* The dispatch of auth_client on the declared client type.
auth_client_typed(conns, client_hello, rnd) ==
    IF client_hello.client_type = <<"anonymous">>
    THEN auth_client_anonymous(conns, client_hello, rnd)
    ELSE IF client_hello.sub_domain # None
    THEN auth_client_named(conns, client_hello, client_hello.client_type[2], rnd)
    ELSE auth_client_unnamed(client_hello, client_hello.client_type[2], rnd)

auth_client_silent(conns, client_hello_data, rnd) ==
    LET parsed == ParseHello(client_hello_data)
        t == <<"auth_client", "from_slice::<ClientHello>">>
    IN  IF parsed = None
        THEN Outcome(None, << >>, t)
        ELSE LET o == auth_client_typed(conns, parsed[1], rnd)
             IN  Outcome(o.result, o.sent, t \o o.trace)

auth_client(conns, client_hello_data, rnd) ==
    LET parsed == ParseHello(client_hello_data)
        t == <<"auth_client", "from_slice::<ClientHello>">>
    IN  IF parsed = None
        THEN Outcome(None, <<"AuthFailed">>, t \o <<"send">>)
        ELSE LET o == auth_client_typed(conns, parsed[1], rnd)
             IN  Outcome(o.result, o.sent, t \o o.trace)

\* What websocket.next() yields: the stream ended, the read failed, or a
\* message with a body.
NoBody == [id |-> None, sub_domain |-> None, client_type |-> None]

ReadOutcomes ==
    {[kind |-> k, body |-> NoBody] : k \in {"closed", "error"}}
      \cup {[kind |-> "msg", body |-> b] : b \in HelloBodies}

auth_client_handshake_by_id(conns, read, rnd) ==
    IF read.kind # "msg"
    THEN Outcome(None, << >>, <<"next">>)
    ELSE LET t == <<"next", "from_slice::<ClientHelloV1>">>
         IN  IF read.body.id # None
             THEN LET o == auth_client_v1(conns,
                               [id |-> read.body.id[1],
                                sub_domain |-> read.body.sub_domain], rnd)
                  IN  Outcome(o.result, o.sent, t \o o.trace)
             ELSE LET o == auth_client(conns, read.body, rnd)
                  IN  Outcome(o.result, o.sent, t \o o.trace)

auth_client_handshake_reply_on_no_msg(conns, read, rnd) ==
    IF read.kind # "msg"
    THEN Outcome(None, <<"AuthFailed">>, <<"next", "send">>)
    ELSE LET client_hello_v1 == ParseV1(read.body)
             t == <<"next", "from_slice::<ClientHelloV1>">>
         IN  IF client_hello_v1 # None
             THEN LET o == auth_client_v1(conns, client_hello_v1[1], rnd)
                  IN  Outcome(o.result, o.sent, t \o o.trace)
             ELSE LET o == auth_client(conns, read.body, rnd)
                  IN  Outcome(o.result, o.sent, t \o o.trace)

auth_client_handshake_retry_read(conns, read, rnd) ==
    IF read.kind = "error"
    THEN Outcome(None, << >>, <<"next", "next">>)
    ELSE IF read.kind # "msg"
    THEN Outcome(None, << >>, <<"next">>)
    ELSE LET client_hello_v1 == ParseV1(read.body)
             t == <<"next", "from_slice::<ClientHelloV1>">>
         IN  IF client_hello_v1 # None
             THEN LET o == auth_client_v1(conns, client_hello_v1[1], rnd)
                  IN  Outcome(o.result, o.sent, t \o o.trace)
             ELSE LET o == auth_client(conns, read.body, rnd)
                  IN  Outcome(o.result, o.sent, t \o o.trace)

auth_client_handshake(conns, read, rnd) ==
    IF read.kind # "msg"
    THEN Outcome(None, << >>, <<"next">>)
    ELSE LET client_hello_v1 == ParseV1(read.body)
             t == <<"next", "from_slice::<ClientHelloV1>">>
         IN  IF client_hello_v1 # None
             THEN LET o == auth_client_v1(conns, client_hello_v1[1], rnd)
                  IN  Outcome(o.result, o.sent, t \o o.trace)
             ELSE LET o == auth_client(conns, read.body, rnd)
                  IN  Outcome(o.result, o.sent, t \o o.trace)

\* ------------------------------------------------------------------- state

VARIABLES
    Connections,   \* the live registry: a set of [host, id], one per host
    hs,            \* the handshake of the connection being served
    racers         \* the handshakes of connections served at the same time

vars == <<Connections, hs, racers>>

Idle ==
    [pc |-> "idle", read |-> [kind |-> "closed", body |-> NoBody],
     conns |-> {}, result |-> None, sent |-> << >>, delivered |-> << >>,
     trace |-> << >>]

\* The connections whose handshakes run concurrently.
RaceConns == {"c1", "c2"}

RaceIdle ==
    [pc |-> "idle", read |-> [kind |-> "closed", body |-> NoBody],
     conns |-> {}, result |-> None, sent |-> << >>]

Init ==
    /\ Connections = {}
    /\ hs = Idle
    /\ racers = [c \in RaceConns |-> RaceIdle]

\* One run of auth_client_handshake on a new websocket: what the read
\* yields, the random name drawn, and whether a send succeeds are inputs.
Handshake ==
    /\ hs.pc = "idle"
    /\ \E read \in ReadOutcomes, rnd \in RandomLabels, write_ok \in BOOLEAN :
          LET out == auth_client_handshake(Connections, read, rnd)
          IN  hs' = [pc |-> "done", read |-> read, conns |-> Connections,
                     result |-> out.result, sent |-> out.sent,
                     delivered |-> IF write_ok THEN out.sent ELSE << >>,
                     trace |-> out.trace]
    /\ UNCHANGED <<Connections, racers>>

\* A name with a generated part: no client can request it, so no lookup of
\* client_for_host can observe its entry.
IsGenerated(name) == Range(name) \cap RandomLabels # {}

\* The connection's owner takes the returned ClientHandshake and registers
\* the client under its sub-domain (an entry for the host is replaced).
Register ==
    /\ hs.pc = "done"
    /\ hs.result # None
    /\ LET r == hs.result[1]
           others == {e \in Connections : e.host # r.sub_domain}
       IN  IF IsGenerated(r.sub_domain)
           THEN UNCHANGED Connections
           ELSE /\ Cardinality(others) < MaxClients
                /\ Connections' = others \cup {[host |-> r.sub_domain, id |-> r.id]}
    /\ hs' = Idle
    /\ UNCHANGED racers

\* The connection ends without being registered: the handshake returned None,
\* or the client went away.
Close ==
    /\ hs.pc = "done"
    /\ hs' = Idle
    /\ UNCHANGED <<Connections, racers>>

\* A registered client disconnects and its host is released.
Disconnect ==
    /\ \E e \in Connections : Connections' = Connections \ {e}
    /\ UNCHANGED <<hs, racers>>

Next == Handshake \/ Register \/ Close \/ Disconnect

Spec == Init /\ [][Next]_vars

\* ------------------------------------------------------ concurrent handshakes

\* The names the concurrent clients ask for, and their hellos: Authenticated,
\* with a requested name.
RaceNames == {<<"a">>, <<"A">>, <<"-">>}

RaceReads ==
    {r \in ReadOutcomes :
        /\ r.kind = "msg"
        /\ r.body.id # None
        /\ r.body.client_type \in {<<"auth", k>> : k \in Keys}
        /\ r.body.sub_domain \in {Some(n) : n \in RaceNames}}

\* The ClientHandshakes returned to connections other than c and not yet
\* registered, as registry entries.
Pending(c) ==
    {[host |-> racers[d].result[1].sub_domain, id |-> racers[d].result[1].id] :
        d \in {e \in RaceConns \ {c} : racers[e].result # None}}

registry_with_pending(registered, pending) == registered \cup pending

\* What Connections::client_for_host consults in the sanitizer: the clients
\* registered at that moment, and nothing of the handshakes in flight.
registry_at_check(registered, pending) == registered

\* auth_client_handshake on connection c, while other connections may hold a
\* result that is not registered yet.
RaceHandshake(c) ==
    /\ racers[c].pc = "idle"
    /\ \E read \in RaceReads, rnd \in RandomLabels :
          LET out == auth_client_handshake(
                         registry_at_check(Connections, Pending(c)), read, rnd)
          IN  racers' = [racers EXCEPT ![c] =
                            [pc |-> "done", read |-> read, conns |-> Connections,
                             result |-> out.result, sent |-> out.sent]]
    /\ UNCHANGED <<Connections, hs>>

\* The owner of connection c registers the returned client; the entry of an
\* earlier client under the same host is replaced.
RaceRegister(c) ==
    /\ racers[c].pc = "done"
    /\ racers[c].result # None
    /\ LET r == racers[c].result[1]
           others == {e \in Connections : e.host # r.sub_domain}
       IN  /\ Cardinality(others) < MaxClients
           /\ Connections' = others \cup {[host |-> r.sub_domain, id |-> r.id]}
    /\ racers' = [racers EXCEPT ![c] = RaceIdle]
    /\ UNCHANGED hs

RaceClose(c) ==
    /\ racers[c].pc = "done"
    /\ racers' = [racers EXCEPT ![c] = RaceIdle]
    /\ UNCHANGED <<Connections, hs>>

NextRace ==
    \/ \E c \in RaceConns : RaceHandshake(c)
    \/ \E c \in RaceConns : RaceRegister(c)
    \/ \E c \in RaceConns : RaceClose(c)
    \/ Disconnect

SpecRace == Init /\ [][NextRace]_vars

\* ------------------------------------------------- vocabulary of the claims

Done == hs.pc = "done"

GotMessage == Done /\ hs.read.kind = "msg"

Body == hs.read.body

AuthTypes == {<<"auth", k>> : k \in Keys}

\* The hello has the legacy shape {id, sub_domain?}.
IsLegacyHello == GotMessage /\ Body.id # None /\ Body.client_type = None

\* The hello has the current shape and declares Anonymous.
IsAnonymousHello ==
    GotMessage /\ Body.id # None /\ Body.client_type = <<"anonymous">>

\* The hello has the current shape and declares Authenticated.
IsAuthHello == GotMessage /\ Body.id # None /\ Body.client_type \in AuthTypes

HelloId == Body.id[1]

HelloKey == Body.client_type[2]

Requested == Body.sub_domain[1]

HasName == Body.sub_domain # None

\* The paths of the handshake that hand the requested name to the sanitizer.
ViaSanitizer == (IsLegacyHello \/ IsAuthHello) /\ HasName

AllAlphanumeric(name) == \A i \in DOMAIN name : is_alphanumeric(name[i])

\* Who held the lower-cased requested name when the handshake ran.
Holder == client_for_host(hs.conns, to_lowercase(Requested))

Rejected(reply) == hs.sent = <<reply>> /\ hs.result = None

Granted(name, is_anonymous) ==
    /\ hs.result = Some(ClientHandshake(HelloId, name, is_anonymous))
    /\ hs.sent = << >>

IsRandomName(name) == \E r \in RandomLabels : name = random_domain(r)

IsPrefixedRandomName(name, prefix) ==
    \E r \in RandomLabels : name = prefixed_random_domain(prefix, r)

Called(step) == step \in Range(hs.trace)

\* ------------------------------------------------------------------ claims

\* C1 as stated: an Authenticated hello with an allow-listed credential and a
\* requested name that is alphanumeric, whose lower-cased form is not reserved
\* and not held by another identifier, is granted exactly the lower-cased name,
\* non-anonymous, with no reply.
C1_AsStated ==
    (/\ IsAuthHello /\ HasName
     /\ HelloKey \in allowed_auth_key
     /\ AllAlphanumeric(Requested)
     /\ to_lowercase(Requested) \notin BLOCKED_SUB_DOMAINS
     /\ Holder \in {None, Some(HelloId)})
    => Granted(to_lowercase(Requested), FALSE)

\* C1, amended: the same with the name's LOWER-CASED form alphanumeric (the
\* character check runs on the lower-cased name, and lower-casing U+0130
\* yields the combining mark U+0307, which is not alphanumeric).
C1_AuthGrantsExactLowercasedName ==
    (/\ IsAuthHello /\ HasName
     /\ HelloKey \in allowed_auth_key
     /\ AllAlphanumeric(to_lowercase(Requested))
     /\ to_lowercase(Requested) \notin BLOCKED_SUB_DOMAINS
     /\ Holder \in {None, Some(HelloId)})
    => Granted(to_lowercase(Requested), FALSE)

\* C1 witness: an allow-listed client asked for a mixed-case name and holds
\* its lower-cased form.
C1_Witness ==
    /\ IsAuthHello /\ HasName
    /\ HelloKey \in allowed_auth_key
    /\ Requested # to_lowercase(Requested)
    /\ hs.result # None
    /\ hs.result[1].sub_domain = to_lowercase(Requested)

\* C2: an Authenticated hello whose credential is not in the allow-list and
\* whose requested name is valid, unowned and not reserved is rejected with one
\* SubDomainInUse reply and yields no result.
C2_UnlistedKeyRejected ==
    (/\ IsAuthHello /\ HasName
     /\ HelloKey \notin allowed_auth_key
     /\ AllAlphanumeric(to_lowercase(Requested))
     /\ to_lowercase(Requested) \notin BLOCKED_SUB_DOMAINS
     /\ Holder = None)
    => Rejected("SubDomainInUse")

\* C2 witness: such a hello was adjudicated and rejected.
C2_Witness ==
    /\ IsAuthHello /\ HasName
    /\ HelloKey \notin allowed_auth_key
    /\ AllAlphanumeric(to_lowercase(Requested))
    /\ to_lowercase(Requested) \notin BLOCKED_SUB_DOMAINS
    /\ Holder = None
    /\ Called("env_auth_sub_domain")
    /\ Rejected("SubDomainInUse")

\* C3: a body that parses as neither the legacy nor the current shape yields
\* one AuthFailed reply and no result.
C3_UnparseableHelloAuthFailed ==
    (GotMessage /\ ParseV1(Body) = None /\ ParseHello(Body) = None)
    => Rejected("AuthFailed")

\* C3 witness: a hello with an id but an unknown client type was rejected.
C3_Witness ==
    /\ GotMessage
    /\ Body.id # None /\ Body.client_type = <<"unknown">>
    /\ Rejected("AuthFailed")

C5_NonAlphanumericInvalid ==
    (ViaSanitizer /\ ~AllAlphanumeric(Requested))
       => /\ Rejected("InvalidSubDomain")
          /\ ~Called("client_for_host")
          /\ ~Called("BLOCKED_SUB_DOMAINS")

\* C5 witness: a name with an upper-case letter followed by a hyphen was
\* rejected.
C5_Witness ==
    /\ ViaSanitizer
    /\ Len(Requested) = 2
    /\ Requested[1] = "A" /\ Requested[2] = "-"
    /\ Rejected("InvalidSubDomain")

C8_LegacyNeverExactName ==
    IsLegacyHello =>
       /\ hs.result # None =>
             /\ hs.result[1].is_anonymous
             /\ hs.result[1].id = HelloId
             /\ HasName => hs.result[1].sub_domain # Requested
       /\ ~HasName =>
             /\ hs.result # None /\ hs.sent = << >>
             /\ IsRandomName(hs.result[1].sub_domain)
       /\ HasName =>
             IF ~AllAlphanumeric(to_lowercase(Requested))
             THEN Rejected("InvalidSubDomain")
             ELSE IF Holder \notin {None, Some(HelloId)}
                     \/ to_lowercase(Requested) \in BLOCKED_SUB_DOMAINS
             THEN Rejected("SubDomainInUse")
             ELSE /\ hs.result # None /\ hs.sent = << >>
                  /\ IsPrefixedRandomName(hs.result[1].sub_domain,
                                          to_lowercase(Requested))

\* C8 witness: a legacy hello asked for a lower-case name and got a result.
C8_Witness ==
    /\ IsLegacyHello /\ HasName
    /\ Requested = to_lowercase(Requested)
    /\ Requested # << >>
    /\ hs.result # None

\* C9: a current-format Anonymous hello is never rejected: whatever name it
\* requests, or none, it gets an anonymous result and no reply; the name is a
\* fresh random name, or a random name prefixed by the raw requested string.
C9_AnonymousNeverRejected ==
    IsAnonymousHello =>
       /\ hs.result # None /\ hs.sent = << >>
       /\ hs.result[1].is_anonymous
       /\ hs.result[1].id = HelloId
       /\ IF HasName
          THEN IsPrefixedRandomName(hs.result[1].sub_domain, Requested)
          ELSE IsRandomName(hs.result[1].sub_domain)

\* C9 witness: an Anonymous hello asked for a name that is not alphanumeric
\* and has upper-case letters, and got a result.
C9_Witness ==
    /\ IsAnonymousHello /\ HasName
    /\ ~AllAlphanumeric(Requested)
    /\ Requested # to_lowercase(Requested)
    /\ hs.result # None

\* C10: an Authenticated hello with no requested name succeeds for every
\* credential, allow-listed or not, with a fresh random name, non-anonymous, no
\* reply, and without the adjudicator, the registry or the reserved set.
C10_AuthWithoutNameUnchecked ==
    (IsAuthHello /\ ~HasName) =>
       /\ hs.result # None /\ hs.sent = << >>
       /\ ~hs.result[1].is_anonymous
       /\ hs.result[1].id = HelloId
       /\ IsRandomName(hs.result[1].sub_domain)
       /\ ~Called("env_auth_sub_domain")
       /\ ~Called("client_for_host")
       /\ ~Called("BLOCKED_SUB_DOMAINS")
       /\ ~Called("sanitize_sub_domain_and_pre_validate")

\* C10 witness: a credential outside the allow-list got a result without
\* naming a sub-domain.
C10_Witness ==
    /\ IsAuthHello /\ ~HasName
    /\ HelloKey \notin allowed_auth_key
    /\ hs.result # None

\* C11: when no first message arrives (the stream ended) or its read fails,
\* the handshake aborts silently: nothing is handed to send, nothing is
\* delivered, no result is produced, and no parse is attempted.
C11_NoMessageSilentAbort ==
    (Done /\ hs.read.kind \in {"closed", "error"})
       => /\ hs.sent = << >>
          /\ hs.delivered = << >>
          /\ hs.result = None
          /\ hs.trace = <<"next">>

\* C11 witness: a handshake whose read failed has ended.
C11_Witness ==
    /\ Done
    /\ hs.read.kind = "error"
    /\ hs.result = None

\* C12: on every path the handshake hands exactly one reply to the channel
\* when it is rejected after a message was read and none when it succeeds; it
\* never both replies and returns a result, and never replies twice.
C12_ReplyCount ==
    Done =>
       /\ Len(hs.sent) <= 1
       /\ Len(hs.delivered) <= Len(hs.sent)
       /\ hs.result # None => hs.sent = << >>
       /\ hs.sent # << >> => hs.result = None
       /\ (GotMessage /\ hs.result = None) => Len(hs.sent) = 1
       /\ Cardinality({i \in DOMAIN hs.trace : hs.trace[i] = "send"}) = Len(hs.sent)

\* C12 witness: a hello was rejected by the sanitizer with its one reply.
C12_Witness ==
    /\ GotMessage
    /\ Called("sanitize_sub_domain_and_pre_validate")
    /\ hs.result = None
    /\ Len(hs.sent) = 1

\* Two characters that are the same letter in either case.
SameLetter(c, d) == c = d \/ {c, d} = {"a", "A"}

\* The names that differ from name only in letter case.
CaseVariants(name) ==
    {v \in [DOMAIN name -> InputChars] :
        \A i \in DOMAIN name : SameLetter(v[i], name[i])}

IsLowerCase(name) == Range(name) \cap {"A", "U+0130"} = {}

Adjudicated ==
    /\ IsAuthHello /\ HasName
    /\ AllAlphanumeric(to_lowercase(Requested))
    /\ Holder \in {None, Some(HelloId)}
    /\ to_lowercase(Requested) \notin BLOCKED_SUB_DOMAINS

\* C15: for an Authenticated hello with a sanitized name, a failed
\* adjudication call gives an AuthFailed reply and no result, ReservedByOther
\* gives a SubDomainInUse reply and no result, and Available or
\* ReservedByCaller grants exactly the sanitized name.  The handshake's own
\* outcome is the one for the decision its adjudicator gave.
C15_AdjudicationOutcomes ==
    Adjudicated =>
       LET name == to_lowercase(Requested)
           hello == [id |-> HelloId, sub_domain |-> Body.sub_domain,
                     client_type |-> Body.client_type]
           given == auth_client_decide(hello, name,
                                       env_auth_sub_domain(HelloKey, name), << >>)
       IN  /\ hs.result = given.result /\ hs.sent = given.sent
           /\ \A d \in AuthDecisions :
                 LET o == auth_client_decide(hello, name, d, << >>)
                 IN  CASE d = "Err" ->
                            o.result = None /\ o.sent = <<"AuthFailed">>
                       [] d = "ReservedByOther" ->
                            o.result = None /\ o.sent = <<"SubDomainInUse">>
                       [] OTHER ->
                            /\ o.result = Some(ClientHandshake(HelloId, name, FALSE))
                            /\ o.sent = << >>

\* C15 witness: an adjudicated hello was granted a name nobody held.
C15_Witness ==
    /\ Adjudicated
    /\ Called("env_auth_sub_domain")
    /\ Holder = None
    /\ hs.result # None

\* C16: the adjudicator decides on the credential's membership in the
\* allow-list alone, never on the requested name or the registry:
\* ReservedByCaller for a listed credential, ReservedByOther otherwise, and
\* never Available or an error.
C16_AdjudicatorAllowListOnly ==
    Adjudicated =>
       /\ Called("env_auth_sub_domain")
       /\ hs.sent # <<"AuthFailed">>
       /\ IF HelloKey \in allowed_auth_key
          THEN Granted(to_lowercase(Requested), FALSE)
          ELSE Rejected("SubDomainInUse")
       /\ \A k \in Keys, name \in CaseVariants(Requested) \cup {<< >>, to_lowercase(Requested)} :
             /\ env_auth_sub_domain(k, name) \in {"ReservedByYou", "ReservedByOther"}
             /\ env_auth_sub_domain(k, name) = "ReservedByYou" <=> k \in allowed_auth_key

\* C16 witness: a client holding a name asked for it again with a credential
\* outside the allow-list and was refused.
C16_Witness ==
    /\ Adjudicated
    /\ Holder = Some(HelloId)
    /\ HelloKey \notin allowed_auth_key
    /\ Rejected("SubDomainInUse")

\* How often a step occurs in the handshake's call trace, and where.
Count(step) == Cardinality({i \in DOMAIN hs.trace : hs.trace[i] = step})

Pos(step) == CHOOSE i \in DOMAIN hs.trace : hs.trace[i] = step

\* C17: for an Authenticated hello with a requested name the sanitizer runs
\* first and the adjudicator runs only if the sanitizer succeeded, on the
\* sanitized name; a sanitizer failure is the reply whatever the credential.
\* Within the sanitizer the character check comes before the registry check,
\* which comes before the reserved-name check, and the first failing check
\* decides the reply.
C17_SanitizerBeforeAdjudication ==
    (IsAuthHello /\ HasName) =>
       LET s == sanitize_sub_domain_and_pre_validate(hs.conns, Requested, HelloId)
           name == to_lowercase(Requested)
       IN  /\ Count("sanitize_sub_domain_and_pre_validate") = 1
           /\ Called("env_auth_sub_domain") <=> s.value # None
           /\ Called("env_auth_sub_domain") =>
                 /\ Pos("sanitize_sub_domain_and_pre_validate") < Pos("env_auth_sub_domain")
                 /\ Pos("BLOCKED_SUB_DOMAINS") < Pos("env_auth_sub_domain")
                 /\ hs.result # None => hs.result[1].sub_domain = s.value[1]
           /\ s.value = None => (hs.result = None /\ hs.sent = s.sent)
           /\ Called("is_alphanumeric")
           /\ Called("client_for_host") <=> ~has_invalid_chars(name)
           /\ Called("client_for_host") =>
                 Pos("is_alphanumeric") < Pos("client_for_host")
           /\ Called("BLOCKED_SUB_DOMAINS") <=>
                 (~has_invalid_chars(name) /\ ~in_use(Holder, HelloId))
           /\ Called("BLOCKED_SUB_DOMAINS") =>
                 Pos("client_for_host") < Pos("BLOCKED_SUB_DOMAINS")
           /\ has_invalid_chars(name) => Rejected("InvalidSubDomain")
           /\ (~has_invalid_chars(name) /\ in_use(Holder, HelloId)) =>
                 Rejected("SubDomainInUse")

\* C17 witness: a listed credential asked for a name of alphanumeric
\* characters held by another client; the sanitizer refused it at the
\* registry check and the adjudicator never ran.
C17_Witness ==
    /\ IsAuthHello /\ HasName
    /\ HelloKey \in allowed_auth_key
    /\ Called("client_for_host")
    /\ ~Called("BLOCKED_SUB_DOMAINS")
    /\ ~Called("env_auth_sub_domain")
    /\ Rejected("SubDomainInUse")

Success == hs.result # None /\ hs.sent = << >>

Rejection == hs.result = None /\ Len(hs.sent) = 1 /\ hs.read.kind = "msg"

SilentAbort == hs.result = None /\ hs.sent = << >> /\ hs.read.kind # "msg"

\* C18: a handshake reads the connection exactly once and ends in exactly one
\* of success, rejection and silent abort; nothing is retried, a reply whose
\* write failed still leaves no result, and there is at most one result.
C18_OneReadOneOutcome ==
    Done =>
       /\ Count("next") = 1
       /\ hs.trace[1] = "next"
       /\ \A i, j \in DOMAIN hs.trace : hs.trace[i] = hs.trace[j] => i = j
       /\ Cardinality({o \in {"success", "rejection", "abort"} :
                          \/ o = "success" /\ Success
                          \/ o = "rejection" /\ Rejection
                          \/ o = "abort" /\ SilentAbort}) = 1
       /\ Len(hs.result) <= 1
       /\ hs.delivered # hs.sent => (hs.delivered = << >> /\ hs.result = None)

\* C18 witness: a rejection whose reply could not be written.
C18_Witness ==
    /\ Done
    /\ Rejection
    /\ hs.delivered = << >>

\* C19: a result carries the caller's own name only for an Authenticated
\* hello with a listed credential, and then the name is lower-case and
\* alphanumeric, not reserved, and was not held by another identifier when
\* checked; every result with is_anonymous set carries a random or a
\* prefixed random name.
C19_ExactNameOnlyForListedAuth ==
    (Done /\ hs.result # None) =>
       LET r == hs.result[1]
       IN  /\ r.is_anonymous =>
                 \/ IsRandomName(r.sub_domain)
                 \/ /\ HasName
                    /\ \E prefix \in {Requested, to_lowercase(Requested)} :
                          IsPrefixedRandomName(r.sub_domain, prefix)
           /\ (~IsGenerated(r.sub_domain)
                  \/ (HasName /\ r.sub_domain \in {Requested, to_lowercase(Requested)})) =>
                 /\ IsAuthHello /\ HasName
                 /\ HelloKey \in allowed_auth_key
                 /\ ~r.is_anonymous
                 /\ r.sub_domain = to_lowercase(Requested)
                 /\ AllAlphanumeric(r.sub_domain)
                 /\ IsLowerCase(r.sub_domain)
                 /\ r.sub_domain \notin BLOCKED_SUB_DOMAINS
                 /\ client_for_host(hs.conns, r.sub_domain) \in {None, Some(r.id)}

\* C19 witness: the holder of a name was granted it again.
C19_Witness ==
    /\ Done /\ hs.result # None
    /\ HasName
    /\ hs.result[1].sub_domain = to_lowercase(Requested)
    /\ client_for_host(hs.conns, hs.result[1].sub_domain) = Some(hs.result[1].id)

\* C20: the empty name passes the character check; an Authenticated hello
\* with a listed credential asking for it is granted exactly the empty name
\* (unless another client holds it or the reserved set lists it), and no hello
\* asking for it is answered InvalidSubDomain.
C20_EmptyNameGranted ==
    (ViaSanitizer /\ Requested = << >>) =>
       /\ ~has_invalid_chars(to_lowercase(Requested))
       /\ hs.sent # <<"InvalidSubDomain">>
       /\ (/\ IsAuthHello
           /\ HelloKey \in allowed_auth_key
           /\ Holder \in {None, Some(HelloId)}
           /\ ~is_blocked(<< >>)) =>
             Granted(<< >>, FALSE)

\* C20 witness: a listed credential was granted the empty name.
C20_Witness ==
    /\ IsAuthHello /\ HasName
    /\ Requested = << >>
    /\ Granted(<< >>, FALSE)

\* C13: the collision check looks at the registry only, so a handshake
\* passes it whatever other handshakes have returned and not yet registered:
\* an Authenticated hello with a listed credential and a valid name that no
\* other identifier has registered is granted the name, also while another
\* connection holds an unregistered grant of the same name for a different
\* identifier.
C13_CheckIgnoresUnregisteredGrants ==
    \A c \in RaceConns :
       racers[c].pc = "done" =>
          LET b == racers[c].read.body
              id == b.id[1]
              name == to_lowercase(b.sub_domain[1])
          IN  /\ \E rnd \in RandomLabels :
                    LET out == auth_client_handshake(racers[c].conns, racers[c].read, rnd)
                    IN  racers[c].result = out.result /\ racers[c].sent = out.sent
              /\ (/\ b.client_type[2] \in allowed_auth_key
                  /\ AllAlphanumeric(name)
                  /\ name \notin BLOCKED_SUB_DOMAINS
                  /\ client_for_host(racers[c].conns, name) \in {None, Some(id)}) =>
                    /\ racers[c].result = Some(ClientHandshake(id, name, FALSE))
                    /\ racers[c].sent = << >>

\* C13 witness: two connections hold a grant of the same name for different
\* identifiers, and neither is registered.
C13_Witness ==
    \E c, d \in RaceConns :
       /\ racers[c].result # None /\ racers[d].result # None
       /\ racers[c].result[1].sub_domain = racers[d].result[1].sub_domain
       /\ racers[c].result[1].id # racers[d].result[1].id
       /\ client_for_host(Connections, racers[c].result[1].sub_domain) = None

====
